---- MODULE Spec2Model ----
(***************************************************************************)
(* A state-machine model of the authenticated catalog crawler              *)
(* (src/unnamed/part_000, sibling variant src/bms-inventory.js).           *)
(*                                                                         *)
(* main() runs its stages in order (database connection, brand query,      *)
(* table re-creation, login, directory fetch, seeding, crawl, final        *)
(* drain, report / catch, finally).  During the crawl the CheerioCrawler   *)
(* runs up to MaxConcurrency page handlers; a handler is atomic between    *)
(* its awaits, so handlers interleave at the `await db.query(...)` inside  *)
(* flushBufferToDb: while one handler awaits its bulk write, others run.   *)
(*                                                                         *)
(* The crawler's request queue keeps one request per URL (uniqueKey): a    *)
(* URL that is already known is not added again, whatever its userData.    *)
(* A handler that throws is retried up to maxRequestRetries times and is   *)
(* then marked failed; crawler.run() itself does not reject.               *)
(***************************************************************************)
EXTENDS Integers, Sequences, FiniteSets, TLC

\* ------------------------------------------------------------------ bounds
MaxBrands == 2          \* length of the configured brand list
MaxPage == 2            \* pages of one listing / search family
MaxConcurrency == 2     \* page handlers in flight at once
MaxDirEntries == 2      \* elements on the directory page
MaxEvents == 3          \* requests discovered, bulk writes rejected and URLs
                        \* whose fetch fails, in one run

MaxTotalPages == 3      \* pages the paginated catalog API reports
MaxJobs == 2            \* jobs in the Linnworks job list
MaxPolls == 2           \* status polls answered before the service is left alone
MaxRows == 2            \* elements the row selector matches on one page

\* ------------------------------------------------------- program constants
FlushThreshold == 100   \* if (productBuffer.length >= 100)
MaxRequestRetries == 3  \* CheerioCrawler default (no maxRequestRetries option)

\* ------------------------------------------------------------- input sets
BrandNames == {"Acme", "Ghost"}
DirNames == {"Acme", "ACME"}
Hrefs == {"/c1", "/c2"}
NoHref == "undefined"
RowChoices == {50, 100}   \* complete product rows on one page
PageRowChoices == {1, 2, 100}   \* the same for a site with short pages
HalfPageRows == {50}            \* the same for a site with pages of 50 rows

\* String.prototype.toLowerCase on the names used here.
toLowerCase(s) ==
    CASE s = "Acme" -> "acme"
      [] s = "ACME" -> "acme"
      [] s = "Ghost" -> "ghost"
      [] OTHER -> s

LowerNames == {toLowerCase(b) : b \in BrandNames}

BrandLists == UNION {[1..n -> BrandNames] : n \in 0..MaxBrands}
DirEntries == [name : DirNames, href : Hrefs \cup {NoHref}]
DirPages == UNION {[1..n -> DirEntries] : n \in 0..MaxDirEntries}

\* A URL of the catalog: a category listing (id = the directory href) or a
\* full-text search (id = the URL-encoded search term), and its page.
Urls == [kind : {"list"}, id : Hrefs, page : 1..MaxPage]
        \cup [kind : {"search"}, id : BrandNames \cup LowerNames, page : 1..MaxPage]

Range(s) == {s[i] : i \in 1..Len(s)}

\* A page of the site the browser can be on after the form was submitted: the
\* path below baseUrl as its segments, and whether a query string follows.
LoginPath == <<"customers", "sign_in">>
NoPage == [path |-> <<>>, query |-> FALSE, open |-> FALSE]
LandingPages ==
    [path : {LoginPath, <<>>, <<"products", "list">>}, query : BOOLEAN, open : {TRUE}]

\* String.prototype.includes on the URL of such a page, for a text that is
\* one path segment.
includes(url, text) == \E i \in 1..Len(url.path) : url.path[i] = text

\* What fetch resolves with for the directory page: the status class and the
\* .card-product-title elements of the body (an error page has none).
NoResponse == [ok |-> FALSE, body |-> <<>>, received |-> FALSE]
DirResponses ==
    [ok : {TRUE}, body : DirPages, received : {TRUE}]
        \cup [ok : {FALSE}, body : {<<>>}, received : {TRUE}]

\* ------------------------------------------------------------- variables
VARIABLES
    mainPc,         \* position of main()
    db,             \* "none" | "open" | "closed"
    table,          \* "previous" | "recreated"
    targetBrands,   \* rows.map(r => r.manufacturer)
    cookieHeader,   \* "" until getSessionCookies returned
    brandDict,      \* Map lower-cased name -> href
    startRequests,  \* the array handed to crawler.run
    reqs,           \* the crawler's request queue, by URL
    productBuffer,  \* sequence of pushed rows, kept as one chunk per page
    totalScraped,
    drainWr,        \* the rows of the final drain's bulk write while awaited
    dbWrites,       \* bulk writes the storage has executed
    writeFailures,  \* bulk writes the storage has rejected
    pushed,         \* every chunk ever pushed into productBuffer
    overlapped,     \* a handler pushed while another one awaited its write
    outcome,        \* "none" | "success" | "error"
    reportedTotal,  \* the count printed by the success message
    landing,        \* page.url() after the login form was submitted
    snapshot,       \* debug_login_failed.png has been written
    logins,         \* calls of getSessionCookies
    dirFetches,     \* fetches of the directory page
    dirResponse,    \* the response getBrandDictionary is reading
    thrown,         \* the error that reached main's catch block
    exRow,          \* the element the extraction loop has just visited
    exRecord,       \* what the loop did with it: the record pushed, if any
    exCount,        \* records pushed by this call of the handler
    exWell,         \* product rows visited that had a name and a code
    exBad,          \* product rows visited that lacked one of them
    sync,           \* the paginated catalog sync script: its locals and effects
    job             \* the Linnworks job script: its locals and effects

stageVars == <<landing, snapshot, logins, dirFetches, dirResponse, thrown>>
mainVars == <<mainPc, db, table, targetBrands, cookieHeader, brandDict, startRequests,
              stageVars>>
sinkVars == <<productBuffer, totalScraped, drainWr, dbWrites, writeFailures, pushed, overlapped>>
outVars == <<outcome, reportedTotal>>
exVars == <<exRow, exRecord, exCount, exWell, exBad>>
scriptVars == <<sync, job>>
vars == <<mainVars, reqs, sinkVars, outVars, exVars, scriptVars>>

\* ----------------------------------------------------------- directory
\* dictionary.set(brandName.toLowerCase(), baseUrl + href) when href is set.
\* Variant: an entry already in the dictionary is kept.
DictSetKeepFirst(d, k, v) ==
    [x \in (DOMAIN d) \cup {k} |-> IF x \in DOMAIN d THEN d[x] ELSE v]

\* Map.prototype.set: a later entry for the same key replaces the earlier one.
DictSet(d, k, v) == [x \in (DOMAIN d) \cup {k} |-> IF x = k THEN v ELSE d[x]]

EmptyDict == [x \in {} |-> NoHref]

RECURSIVE DictFrom(_, _)
DictFrom(page, d) ==
    IF page = <<>> THEN d
    ELSE LET el == Head(page)
         IN DictFrom(Tail(page),
                     IF el.href # NoHref THEN DictSet(d, toLowerCase(el.name), el.href)
                     ELSE d)

getBrandDictionary(page) == DictFrom(page, EmptyDict)

\* --------------------------------------------------------------- seeding
ListUrl(href) == [kind |-> "list", id |-> href, page |-> 1]
SearchUrl(brand) == [kind |-> "search", id |-> brand, page |-> 1]

\* Variant: the search term taken from the lower-cased brand.
StartUrlNormalizedSearch(brand, dict) ==
    LET normalizedBrand == toLowerCase(brand)
    IN IF normalizedBrand \in DOMAIN dict THEN ListUrl(dict[normalizedBrand])
       ELSE SearchUrl(normalizedBrand)

StartUrl(brand, dict) ==
    LET normalizedBrand == toLowerCase(brand)
    IN IF normalizedBrand \in DOMAIN dict THEN ListUrl(dict[normalizedBrand])
       ELSE SearchUrl(brand)

StartUserData(brand, dict) == [brandName |-> brand, isSearchFallback |-> FALSE]

StartRequestsOf(brands, dict) ==
    [i \in 1..Len(brands) |->
        [url |-> StartUrl(brands[i], dict), userData |-> StartUserData(brands[i], dict)]]

\* --------------------------------------------------------- request queue
AbsentReq ==
    [st |-> "absent", brandName |-> "", isSearchFallback |-> FALSE, retryCount |-> 0,
     wr |-> <<>>, from |-> "", parentFb |-> FALSE, noProducts |-> FALSE,
     asked |-> {}, parent |-> {}, nextLinks |-> {},
     fetchFailed |-> FALSE]

NewReq(ud, from, parentFb) ==
    [AbsentReq EXCEPT !.st = "pending", !.brandName = ud.brandName,
                      !.isSearchFallback = ud.isSearchFallback,
                      !.from = from, !.parentFb = parentFb]

\* The request as enqueueLinks adds it from the page at URL u.
DiscoveredOn(q, old, u) ==
    [v \in Urls |-> IF old[v].st = "absent" /\ q[v].st # "absent"
                    THEN [q[v] EXCEPT !.parent = {u}] ELSE q[v]]

\* RequestQueue.addRequest: a URL already known to the queue is skipped.
AddRequests(q, us, ud, from, parentFb) ==
    [u \in Urls |-> IF u \in us /\ q[u].st = "absent" THEN NewReq(ud, from, parentFb)
                    ELSE q[u]]

RECURSIVE AddStartRequests(_, _)
AddStartRequests(q, rs) ==
    IF rs = <<>> THEN q
    ELSE AddStartRequests(AddRequests(q, {Head(rs).url}, Head(rs).userData, "start", FALSE),
                          Tail(rs))

InFlight == {u \in Urls : reqs[u].st = "flushing"}
\* Variant: crawler.run() waits until every request has succeeded.
QueueDrainedAllHandled == \A u \in Urls : reqs[u].st \in {"absent", "handled"}
\* crawler.run() resolves when no request is pending or being handled.
QueueDrained == \A u \in Urls : reqs[u].st \in {"absent", "handled", "failed"}

\* ------------------------------------------------------------ batch sink
RECURSIVE BufLen(_)
BufLen(buf) == IF buf = <<>> THEN 0 ELSE Head(buf).n + BufLen(Tail(buf))

RECURSIVE WrittenCount(_)
WrittenCount(ws) == IF ws = <<>> THEN 0 ELSE BufLen(Head(ws).rows) + WrittenCount(Tail(ws))

Written == UNION {Range(dbWrites[i].rows) : i \in 1..Len(dbWrites)}

RECURSIVE SetLen(_)
SetLen(S) == IF S = {} THEN 0 ELSE LET c == CHOOSE x \in S : TRUE IN c.n + SetLen(S \ {c})

\* productBuffer.push([...]) for every row of the page that has a code and a title.
Chunk(u, r, n) == [brandName |-> r.brandName, url |-> u, try |-> r.retryCount, n |-> n]
PushRows(buf, u, r, n) == IF n > 0 THEN Append(buf, Chunk(u, r, n)) ELSE buf

\* Variant: the buffer flushed after every page that pushed a row.
ThresholdAnyRows(buf) == BufLen(buf) > 0
\* Variant: a threshold of 50.
ThresholdHalved(buf) == 2 * BufLen(buf) >= FlushThreshold
\* Variant: a threshold of 200.
ThresholdDoubled(buf) == BufLen(buf) >= 2 * FlushThreshold
\* Variant: the comparison written as > instead of >=.
ThresholdExceeded(buf) == BufLen(buf) > FlushThreshold
ThresholdReached(buf) == BufLen(buf) >= FlushThreshold

\* Variant: the bulk write carries only the rows pushed last.
BulkWriteRowsLastPage(buf) == <<buf[Len(buf)]>>
\* db.query(insertQuery, [productBuffer]): the rows of the bulk write.
BulkWriteRows(buf) == buf
\* flushBufferToDb after the awaited db.query resolved.
TotalAfterFlush(total, buf, wr) == total + BufLen(buf)
BufferAfterFlush(buf, wr) == <<>>
\* flushBufferToDb when the awaited db.query rejected: the two lines are skipped.
TotalAfterFailedWrite(total, buf) == total
\* Variant: the buffer reset placed in a finally block.
BufferClearedOnFailedWrite(buf) == <<>>
BufferAfterFailedWrite(buf) == buf

\* ------------------------------------------------------ request handler
\* Variant: the search term built from the lower-cased brand.
FallbackSearchUrlLowerCased(brandName) == SearchUrl(toLowerCase(brandName))
FallbackSearchUrl(brandName) == SearchUrl(brandName)
FallbackUserData(ud) == [brandName |-> ud.brandName, isSearchFallback |-> TRUE]
\* Variant: pagination requests built with the userData of the no-products branch.
PaginationUserDataAsFallback(ud) == [brandName |-> ud.brandName, isSearchFallback |-> TRUE]
\* Variant: pagination requests built like start requests.
PaginationUserDataReset(ud) == [brandName |-> ud.brandName, isSearchFallback |-> FALSE]
\* Variant: pagination requests that carry the normalised brand.
PaginationUserDataNormalized(ud) ==
    [brandName |-> toLowerCase(ud.brandName), isSearchFallback |-> ud.isSearchFallback]
PaginationUserData(ud) == [brandName |-> ud.brandName, isSearchFallback |-> ud.isSearchFallback]

UserDataOf(r) == [brandName |-> r.brandName, isSearchFallback |-> r.isSearchFallback]

\* Variant: the no-products branch without the isSearchFallback test.
NoProductsUrlsUnguarded(ud) == {FallbackSearchUrl(ud.brandName)}
\* What the no-products branch hands to enqueueLinks (nothing on a fallback page).
NoProductsUrls(ud) == IF ~ud.isSearchFallback THEN {FallbackSearchUrl(ud.brandName)} ELSE {}

\* The links the pagination selector can match on a page: none, the next page
\* of the same listing or search, or that and a link back to the first page.
\* The site stops offering new pages, and the environment stops failing, once
\* the run has used up MaxEvents.
Known == {u \in Urls : reqs[u].st # "absent"}
Down == {u \in Urls : reqs[u].fetchFailed}
Budget == MaxEvents - (Cardinality(Known) + writeFailures + Cardinality(Down))
NextPage(u) == {v \in Urls : v.kind = u.kind /\ v.id = u.id /\ v.page = u.page + 1}
FirstPage(u) == {v \in Urls : v.kind = u.kind /\ v.id = u.id /\ v.page = 1}
NextLinkChoices(u) ==
    IF Budget > 0
    THEN {{}, NextPage(u), NextPage(u) \cup FirstPage(u)}
    ELSE {{}, FirstPage(u)}

Paginate(q, u, links) ==
    DiscoveredOn(AddRequests(q, links, PaginationUserData(UserDataOf(q[u])), "pagination",
                             q[u].isSearchFallback),
                 q, u)

\* Variant: the pagination links enqueued before the threshold check.
AwaitFlushAfterPagination(q, u, buf) ==
    [Paginate(q, u, NextPage(u)) EXCEPT ![u].st = "flushing", ![u].wr = buf]
\* The handler awaits flushBufferToDb before it reaches the pagination links;
\* the bulk write carries the buffer as it is at the call.
AwaitFlush(q, u, buf) == [q EXCEPT ![u].st = "flushing", ![u].wr = buf]

\* ------------------------------------------------------ record extraction
\* Text is a sequence of characters.  A label the code pattern matches as a
\* unit ("Code:", "SKU:", in either case) is one element of the sequence.
Whitespace == {" "}
Digit == {"0", "1", "2", "3", "5", "6", "9"}
Labels == {"Code:", "code:", "SKU:", "sku:"}

DigitValue(c) ==
    CASE c = "0" -> 0 [] c = "1" -> 1 [] c = "2" -> 2 [] c = "3" -> 3
      [] c = "5" -> 5 [] c = "6" -> 6 [] c = "9" -> 9

\* String.prototype.trim
RECURSIVE TrimStart(_)
TrimStart(s) ==
    IF s # <<>> /\ Head(s) \in Whitespace THEN TrimStart(Tail(s)) ELSE s

RECURSIVE TrimEnd(_)
TrimEnd(s) ==
    IF s # <<>> /\ s[Len(s)] \in Whitespace
    THEN TrimEnd(SubSeq(s, 1, Len(s) - 1))
    ELSE s

trim(s) == TrimEnd(TrimStart(s))

\* replace(/Code:|SKU:/i, ''): the pattern has no g flag, so only the first
\* match is removed.
RECURSIVE RemoveFirstLabel(_)
RemoveFirstLabel(s) ==
    IF s = <<>> THEN <<>>
    ELSE IF Head(s) \in Labels THEN Tail(s)
    ELSE <<Head(s)>> \o RemoveFirstLabel(Tail(s))

\* replace(/[^0-9.]/g, '')
StripNonNumeric(s) == SelectSeq(s, LAMBDA c : c \in Digit \cup {"."})

\* The value of attr(): undefined when the element or the attribute is
\* missing, the attribute's text otherwise.
Undefined == [defined |-> FALSE, text |-> <<>>]
Str(s) == [defined |-> TRUE, text |-> s]

\* JavaScript truthiness of a string or undefined.
Truthy(v) == v.defined /\ v.text # <<>>

\* a || b
Or(a, b) == IF Truthy(a) THEN a ELSE b

\* parseFloat: leading white space is skipped, then the longest prefix
\* digits [ "." digits ] with at least one digit is converted; NaN otherwise.
\* A number is kept as its whole part and its fraction digits without
\* trailing zeros.
NaN == [nan |-> TRUE, whole |-> 0, frac |-> <<>>]
Zero == [nan |-> FALSE, whole |-> 0, frac |-> <<>>]

RECURSIVE DigitPrefix(_)
DigitPrefix(s) ==
    IF s # <<>> /\ Head(s) \in Digit
    THEN <<Head(s)>> \o DigitPrefix(Tail(s))
    ELSE <<>>

RECURSIVE WholeValue(_)
WholeValue(ds) ==
    IF ds = <<>> THEN 0
    ELSE 10 * WholeValue(SubSeq(ds, 1, Len(ds) - 1)) + DigitValue(ds[Len(ds)])

RECURSIVE DropTrailingZeros(_)
DropTrailingZeros(ds) ==
    IF ds # <<>> /\ ds[Len(ds)] = "0"
    THEN DropTrailingZeros(SubSeq(ds, 1, Len(ds) - 1))
    ELSE ds

parseFloat(s) ==
    LET t == TrimStart(s)
        w == DigitPrefix(t)
        rest == SubSeq(t, Len(w) + 1, Len(t))
        f == IF rest # <<>> /\ Head(rest) = "." THEN DigitPrefix(Tail(rest))
             ELSE <<>>
    IN  IF w = <<>> /\ f = <<>> THEN NaN
        ELSE [nan |-> FALSE, whole |-> WholeValue(w), frac |-> DropTrailingZeros(f)]

\* parseFloat(v || 0)
parseFloatOrZero(v) == IF Truthy(v) THEN parseFloat(v.text) ELSE Zero

\* x > 0, false for NaN
GreaterThanZero(x) == ~x.nan /\ (x.whole > 0 \/ x.frac # <<>>)

\* What the selectors of the extraction find under one matched element.
TitleTexts == { <<>>, <<" ">>, <<" ", "B", "6", " ">> }
CodeTexts ==
    { <<>>, <<"Code:", " ">>, <<"code:", " ", "A", "1", " ">>, <<"S", "9">> }
DataPrices == { Undefined, Str(<<"6", ".", "0", "3">>) }
PriceTexts == { <<>>, <<"P", "O", "A">>, <<"$", "9", ".", "5", "0">> }
StockTexts == { <<>>, <<"1", "2", " ", "i", "n">>, <<"n", ".", "a">> }
QuantityMaxes == { Undefined, Str(<<"0">>), Str(<<"5">>) }

ProductRows ==
    [ secondRow : {FALSE}, title : TitleTexts, code : CodeTexts,
      dataPrice : DataPrices, priceText : PriceTexts,
      stockText : StockTexts, max : QuantityMaxes ]

\* Rows of class second-row, whatever they contain.
SpacerRows ==
    [ secondRow : {TRUE}, title : TitleTexts, code : CodeTexts,
      dataPrice : {Undefined}, priceText : {<<>>},
      stockText : {<<>>}, max : {Undefined} ]

Elements == ProductRows \cup SpacerRows

NoRow ==
    [ secondRow |-> FALSE, title |-> <<>>, code |-> <<>>,
      dataPrice |-> Undefined, priceText |-> <<>>,
      stockText |-> <<>>, max |-> Undefined ]

NoRecord ==
    [ pushed |-> FALSE, sku |-> <<>>, status |-> "", price |-> Zero,
      name |-> <<>>, qty |-> Zero ]

titleOf(el) == trim(el.title)
rawCodeOf(el) == trim(RemoveFirstLabel(el.code))

\* Variant: the visible price text is read first and the data-price
\* attribute only when the text leaves nothing.
rawPriceTextFirst(el) ==
    Or(Str(StripNonNumeric(el.priceText)), el.dataPrice)

\* let rawPrice = attr('data-price'); if (!rawPrice) rawPrice = text stripped
rawPriceOf(el) ==
    IF ~Truthy(el.dataPrice) THEN Str(StripNonNumeric(el.priceText))
    ELSE el.dataPrice

qtyTextOf(el) == Str(StripNonNumeric(el.stockText))
qtyInputOf(el) == el.max

\* parseFloat(qtyText || qtyInput || 0)
qtyOf(el) == parseFloatOrZero(Or(qtyTextOf(el), qtyInputOf(el)))

\* Variant: a quantity of zero counts as in stock.
statusOfNonNegative(qty) ==
    IF ~qty.nan THEN "IN_STOCK" ELSE "OUT_OF_STOCK"

\* qty > 0 ? 'IN_STOCK' : 'OUT_OF_STOCK'
statusOf(qty) == IF GreaterThanZero(qty) THEN "IN_STOCK" ELSE "OUT_OF_STOCK"

\* Variant: a record also needs a price.
ShouldPushWithPrice(el) ==
    rawCodeOf(el) # <<>> /\ titleOf(el) # <<>> /\ Truthy(rawPriceOf(el))

\* if (rawCode && title)
ShouldPush(el) == rawCodeOf(el) # <<>> /\ titleOf(el) # <<>>

RecordOf(el) ==
    [ pushed |-> TRUE, sku |-> rawCodeOf(el), status |-> statusOf(qtyOf(el)),
      price |-> parseFloatOrZero(rawPriceOf(el)), name |-> titleOf(el),
      qty |-> qtyOf(el) ]

\* A product row has a name and a code when each shows a character that is
\* not white space, the code's label aside.
HasText(s) == \E i \in 1..Len(s) : s[i] \notin Whitespace
HasCode(s) ==
    \E i \in 1..Len(s) :
        /\ s[i] \notin Whitespace
        /\ s[i] \in Labels => \E j \in 1..(i - 1) : s[j] \in Labels
WellFormed(el) == HasText(el.title) /\ HasCode(el.code)

\* ------------------------------------------------- paginated catalog sync
\* The catalog sync scripts (Magento, Marathon) fetch the catalog page by page
\* and insert every page into the table they have just recreated.
ItemCounts == {0, 1, 2}    \* items on a page of the API response
PageResponses == [total_pages : 0..MaxTotalPages, items : ItemCounts]

\* main before its first statement: the table still holds the previous
\* snapshot; fetched lists the pages asked for, received the item counts of
\* the answers, reported the total_pages of the answer to page 1.
SyncStart ==
    [ pc |-> "setup", table |-> "previous", rows |-> <<>>,
      currentPage |-> 1, totalPages |-> 1, totalFetched |-> 0,
      fetched |-> <<>>, received |-> <<>>, reported |-> 0,
      pending |-> 0, failedAt |-> 0, out |-> "none", db |-> "none" ]

\* Variant: totalPages taken from every response.
TotalPagesFromEveryResponse(currentPage, totalPages, resp) == resp.total_pages

\* if (currentPage === 1) totalPages = productsData.page_info.total_pages;
TotalPagesAfter(currentPage, totalPages, resp) ==
    IF currentPage = 1 THEN resp.total_pages ELSE totalPages

\* --------------------------------------------------------- Linnworks job
\* The job script authenticates, looks its job up by name in the list of
\* import or export jobs, enables it if need be, triggers it and polls it.
JobName == "nightly"
JobNames == {"nightly", "other"}
JobIds == {1, 2}
Jobs == [Name : JobNames, FriendlyName : JobNames, Enabled : BOOLEAN, Id : JobIds]
NoJob == [Name |-> "", FriendlyName |-> "", Enabled |-> FALSE, Id |-> 0]
JobLists == UNION {[1..n -> Jobs] : n \in 0..MaxJobs}
JobStates == [IsQueued : BOOLEAN, Executing : BOOLEAN]

\* list.find(j => j.Name === values.job_name || j.FriendlyName === values.job_name)
Matches(j) == j.Name = JobName \/ j.FriendlyName = JobName

find(list) ==
    IF \E i \in 1..Len(list) : Matches(list[i])
    THEN list[CHOOSE i \in 1..Len(list) :
                /\ Matches(list[i])
                /\ \A k \in 1..(i - 1) : ~Matches(list[k])]
    ELSE NoJob

\* Variant: the job is triggered without looking at its Enabled flag.
NeedsEnableNever(j) == FALSE

\* if (!targetJob.Enabled)
NeedsEnable(j) == ~j.Enabled

\* Variant: the loop ends as soon as the job is not executing.
IsFinishedNotExecuting(st) == ~st.Executing

\* if (!isQueued && !isExecuting) isFinished = true
IsFinished(st) == ~st.IsQueued /\ ~st.Executing

\* main before its first statement: sent lists the requests made, each with
\* the job id it carried and whether it succeeded; polls the states reported.
JobStart ==
    [ pc |-> "auth", sent |-> <<>>, targetJob |-> NoJob, polls |-> <<>>,
      isFinished |-> FALSE, exit |-> "none" ]

Request(name, id, ok) == [req |-> name, id |-> id, ok |-> ok]

\* ------------------------------------------------------------------ Init
Init ==
    /\ mainPc = "connect"
    /\ db = "none"
    /\ table = "previous"
    /\ targetBrands = <<>>
    /\ cookieHeader = ""
    /\ brandDict = EmptyDict
    /\ startRequests = <<>>
    /\ reqs = [u \in Urls |-> AbsentReq]
    /\ productBuffer = <<>>
    /\ totalScraped = 0
    /\ drainWr = <<>>
    /\ dbWrites = <<>>
    /\ writeFailures = 0
    /\ pushed = {}
    /\ overlapped = FALSE
    /\ outcome = "none"
    /\ reportedTotal = 0
    /\ landing = NoPage
    /\ snapshot = FALSE
    /\ logins = 0
    /\ dirFetches = 0
    /\ dirResponse = NoResponse
    /\ thrown = "none"
    /\ exRow = NoRow
    /\ exRecord = NoRecord
    /\ exCount = 0
    /\ exWell = 0
    /\ exBad = 0
    /\ sync = SyncStart
    /\ job = JobStart

\* ------------------------------------------------------------ main stages
Connect ==
    /\ mainPc = "connect"
    /\ \/ /\ db' = "open"
          /\ mainPc' = "queryBrands"
          /\ thrown' = thrown
       \/ /\ db' = db
          /\ mainPc' = "catch"
          /\ thrown' = "ConnectionError"
    /\ UNCHANGED <<table, targetBrands, cookieHeader, brandDict, startRequests>>
    /\ UNCHANGED <<landing, snapshot, logins, dirFetches, dirResponse>>
    /\ UNCHANGED <<reqs, sinkVars, outVars>>
    /\ UNCHANGED <<exVars, scriptVars>>

\* Variant: the table is left as it is until the crawl has started.
AfterBrandQuerySkipDrop(brands) == IF Len(brands) = 0 THEN "finally" ELSE "login"

\* Variant: the run goes on whatever the brand query returned.
AfterBrandQueryUnguarded(brands) == "dropTable"

\* if (targetBrands.length === 0) return;  -- inside the try, so the finally
\* block still runs.
AfterBrandQuery(brands) == IF Len(brands) = 0 THEN "finally" ELSE "dropTable"

QueryBrands ==
    /\ mainPc = "queryBrands"
    /\ \E brands \in BrandLists :
          /\ targetBrands' = brands
          /\ mainPc' = AfterBrandQuery(brands)
    /\ UNCHANGED <<db, table, cookieHeader, brandDict, startRequests, stageVars>>
    /\ UNCHANGED <<reqs, sinkVars, outVars>>
    /\ UNCHANGED <<exVars, scriptVars>>

DropAndCreateTable ==
    /\ mainPc = "dropTable"
    /\ table' = "recreated"
    /\ mainPc' = "login"
    /\ UNCHANGED <<db, targetBrands, cookieHeader, brandDict, startRequests, stageVars>>
    /\ UNCHANGED <<reqs, sinkVars, outVars>>
    /\ UNCHANGED <<exVars, scriptVars>>

\* Variant: the test compares the URL with the login URL itself.
StayedOnLoginExact(url) == url.path = LoginPath /\ ~url.query
\* if (currentUrl.includes('sign_in'))
StayedOnLogin(url) == includes(url, "sign_in")

\* Variant: main calls getSessionCookies again after it threw.
AfterFailedLoginRetry == "login"
\* Variant: getSessionCookies resolves with no cookies instead of throwing.
AfterFailedLoginContinue == "directory"
\* An error thrown inside getSessionCookies leaves main's try block.
AfterFailedLogin == "catch"

\* getSessionCookies up to the submitted form: the browser is launched, the
\* login page loaded, the form filled and submitted; any of these can throw.
LoginSubmit ==
    /\ mainPc = "login"
    /\ logins' = logins + 1
    /\ \/ \E url \in LandingPages :
             /\ landing' = url
             /\ mainPc' = "loginCheck"
             /\ thrown' = thrown
       \/ /\ landing' = landing
          /\ mainPc' = AfterFailedLogin
          /\ thrown' = "BrowserError"
    /\ UNCHANGED <<db, table, targetBrands, cookieHeader, brandDict, startRequests>>
    /\ UNCHANGED <<snapshot, dirFetches, dirResponse>>
    /\ UNCHANGED <<reqs, sinkVars, outVars>>
    /\ UNCHANGED <<exVars, scriptVars>>

\* The test of the page reached: still on the login page, the screenshot is
\* taken; otherwise the cookies are read and returned.
LoginCheck ==
    /\ mainPc = "loginCheck"
    /\ IF StayedOnLogin(landing)
       THEN /\ snapshot' = TRUE
            /\ mainPc' = "loginThrow"
            /\ UNCHANGED <<cookieHeader, landing>>
       ELSE /\ cookieHeader' = "session"
            /\ landing' = NoPage
            /\ mainPc' = "directory"
            /\ snapshot' = snapshot
    /\ UNCHANGED <<db, table, targetBrands, brandDict, startRequests>>
    /\ UNCHANGED <<logins, dirFetches, dirResponse, thrown>>
    /\ UNCHANGED <<reqs, sinkVars, outVars>>
    /\ UNCHANGED <<exVars, scriptVars>>

\* throw new Error("Login failed ...") after the browser was closed.
LoginThrow ==
    /\ mainPc = "loginThrow"
    /\ thrown' = "LoginFailed"
    /\ landing' = NoPage
    /\ mainPc' = AfterFailedLogin
    /\ UNCHANGED <<db, table, targetBrands, cookieHeader, brandDict, startRequests>>
    /\ UNCHANGED <<snapshot, logins, dirFetches, dirResponse>>
    /\ UNCHANGED <<reqs, sinkVars, outVars>>
    /\ UNCHANGED <<exVars, scriptVars>>

\* getBrandDictionary up to the resolved fetch: fetch rejects on a network
\* failure and resolves with whatever response the server sent otherwise.
DirectoryFetch ==
    /\ mainPc = "directory"
    /\ dirFetches' = dirFetches + 1
    /\ \/ \E resp \in DirResponses :
             /\ dirResponse' = resp
             /\ mainPc' = "dirParse"
             /\ thrown' = thrown
       \/ /\ dirResponse' = dirResponse
          /\ mainPc' = "catch"
          /\ thrown' = "FetchError"
    /\ UNCHANGED <<db, table, targetBrands, cookieHeader, brandDict, startRequests>>
    /\ UNCHANGED <<landing, snapshot, logins>>
    /\ UNCHANGED <<reqs, sinkVars, outVars>>
    /\ UNCHANGED <<exVars, scriptVars>>

\* The body of the response is parsed into the dictionary, whatever its status.
DirectoryParse ==
    /\ mainPc = "dirParse"
    /\ brandDict' = getBrandDictionary(dirResponse.body)
    /\ mainPc' = "seed"
    /\ UNCHANGED <<db, table, targetBrands, cookieHeader, startRequests>>
    /\ UNCHANGED <<landing, snapshot, logins, dirFetches, dirResponse, thrown>>
    /\ UNCHANGED <<reqs, sinkVars, outVars>>
    /\ UNCHANGED <<exVars, scriptVars>>

\* getBrandDictionary returns the dictionary it has built, and main maps the
\* brands to the start requests the crawler is run with.
Seed ==
    /\ mainPc = "seed"
    /\ dirResponse' = NoResponse
    /\ startRequests' = StartRequestsOf(targetBrands, brandDict)
    /\ reqs' = AddStartRequests(reqs, startRequests')
    /\ mainPc' = "crawl"
    /\ UNCHANGED <<db, table, targetBrands, cookieHeader, brandDict>>
    /\ UNCHANGED <<landing, snapshot, logins, dirFetches, thrown>>
    /\ UNCHANGED <<sinkVars, outVars>>
    /\ UNCHANGED <<exVars, scriptVars>>

\* ------------------------------------------------------------------ crawl
\* The crawler takes a pending request when a slot is free, fetches the page
\* and calls the handler; the handler runs without interruption up to its
\* first awaited bulk write.
CanStart(u) ==
    /\ mainPc = "crawl"
    /\ reqs[u].st = "pending"
    /\ Cardinality(InFlight) < MaxConcurrency

\* The page carries the "no products available" alert.
HandleNoProducts(u) ==
    /\ CanStart(u)
    /\ reqs' = [DiscoveredOn(AddRequests(reqs, NoProductsUrls(UserDataOf(reqs[u])),
                                         FallbackUserData(UserDataOf(reqs[u])),
                                         "noProducts", reqs[u].isSearchFallback),
                             reqs, u)
                  EXCEPT ![u].st = "handled", ![u].noProducts = TRUE,
                         ![u].asked = NoProductsUrls(UserDataOf(reqs[u]))]
    /\ UNCHANGED <<mainVars, sinkVars, outVars>>
    /\ UNCHANGED <<exVars, scriptVars>>

\* The page lists n complete rows; below the threshold the handler goes on to
\* the pagination links, otherwise it issues the bulk write and awaits it.
HandleRowsOf(u, choices) ==
    /\ CanStart(u)
    /\ \E n \in choices :
          LET buf == PushRows(productBuffer, u, reqs[u], n)
          IN /\ productBuffer' = buf
             /\ pushed' = IF n > 0 THEN pushed \cup {Chunk(u, reqs[u], n)} ELSE pushed
             /\ overlapped' = (overlapped \/ (n > 0 /\ \E v \in Urls : reqs[v].st = "flushing"))
             /\ IF ThresholdReached(buf)
                THEN reqs' = AwaitFlush(reqs, u, BulkWriteRows(buf))
                ELSE \E links \in NextLinkChoices(u) :
                        reqs' = [Paginate(reqs, u, links)
                                   EXCEPT ![u].st = "handled",
                                          ![u].nextLinks = links \cap NextPage(u)]
    /\ UNCHANGED <<mainVars, totalScraped, drainWr, dbWrites, writeFailures, outVars>>
    /\ UNCHANGED <<exVars, scriptVars>>

HandleRows(u) == HandleRowsOf(u, RowChoices)
HandlePageRows(u) == HandleRowsOf(u, PageRowChoices)
HandleHalfPage(u) == HandleRowsOf(u, HalfPageRows)

FlushOk(u) ==
    /\ mainPc = "crawl"
    /\ reqs[u].st = "flushing"
    /\ dbWrites' = Append(dbWrites, [rows |-> reqs[u].wr, by |-> "threshold"])
    /\ totalScraped' = TotalAfterFlush(totalScraped, productBuffer, reqs[u].wr)
    /\ productBuffer' = BufferAfterFlush(productBuffer, reqs[u].wr)
    /\ \E links \in NextLinkChoices(u) :
          reqs' = [Paginate(reqs, u, links)
                     EXCEPT ![u].st = "handled", ![u].wr = <<>>,
                            ![u].nextLinks = links \cap NextPage(u)]
    /\ UNCHANGED <<mainVars, drainWr, writeFailures, pushed, overlapped, outVars>>
    /\ UNCHANGED <<exVars, scriptVars>>

\* Variant: one retry more than maxRequestRetries.
AfterErrorOneMoreRetry(r) ==
    IF r.retryCount <= MaxRequestRetries
    THEN [r EXCEPT !.st = "pending", !.retryCount = @ + 1]
    ELSE [r EXCEPT !.st = "failed"]
\* The crawler's state of a request after an attempt ended with an error: back
\* in the queue while retries are left, failed for good otherwise.
AfterError(r) ==
    IF r.retryCount < MaxRequestRetries
    THEN [r EXCEPT !.st = "pending", !.retryCount = @ + 1]
    ELSE [r EXCEPT !.st = "failed"]

\* The rejected write makes the handler throw; the crawler reclaims the request
\* for a retry or, with the retries used up, marks it failed.
FlushFail(u) ==
    /\ mainPc = "crawl"
    /\ reqs[u].st = "flushing"
    /\ Budget > 0
    /\ writeFailures' = writeFailures + 1
    /\ totalScraped' = TotalAfterFailedWrite(totalScraped, productBuffer)
    /\ productBuffer' = BufferAfterFailedWrite(productBuffer)
    /\ reqs' = [reqs EXCEPT ![u] = [AfterError(reqs[u]) EXCEPT !.wr = <<>>]]
    /\ UNCHANGED <<mainVars, drainWr, dbWrites, pushed, overlapped, outVars>>
    /\ UNCHANGED <<exVars, scriptVars>>

\* The fetch of a pending request fails (connection error, timeout, blocked
\* status code): the handler is not called and the crawler counts the attempt.
FetchFail(u) ==
    /\ CanStart(u)
    /\ reqs[u].fetchFailed \/ Budget > 0
    /\ reqs' = [reqs EXCEPT ![u] = [AfterError(reqs[u]) EXCEPT !.fetchFailed = TRUE]]
    /\ UNCHANGED <<mainVars, sinkVars, outVars>>
    /\ UNCHANGED <<exVars, scriptVars>>

\* crawler.run() resolves once the queue is drained; main then calls the final
\* flushBufferToDb, which returns at once on an empty buffer (and main prints
\* the success message) or issues the bulk write and awaits it.
CrawlEnd ==
    /\ mainPc = "crawl"
    /\ QueueDrained
    /\ IF Len(productBuffer) = 0
       THEN /\ mainPc' = "finally"
            /\ drainWr' = drainWr
            /\ outcome' = "success"
            /\ reportedTotal' = totalScraped
       ELSE /\ mainPc' = "drainWait"
            /\ drainWr' = BulkWriteRows(productBuffer)
            /\ UNCHANGED outVars
    /\ UNCHANGED <<db, table, targetBrands, cookieHeader, brandDict, startRequests>>
    /\ UNCHANGED stageVars
    /\ UNCHANGED <<reqs, productBuffer, totalScraped, dbWrites, writeFailures, pushed,
                   overlapped>>
    /\ UNCHANGED <<exVars, scriptVars>>

\* ------------------------------------------------------------ final drain
DrainOk ==
    /\ mainPc = "drainWait"
    /\ dbWrites' = Append(dbWrites, [rows |-> drainWr, by |-> "drain"])
    /\ totalScraped' = TotalAfterFlush(totalScraped, productBuffer, drainWr)
    /\ productBuffer' = BufferAfterFlush(productBuffer, drainWr)
    /\ drainWr' = <<>>
    /\ outcome' = "success"
    /\ reportedTotal' = totalScraped'
    /\ mainPc' = "finally"
    /\ UNCHANGED <<db, table, targetBrands, cookieHeader, brandDict, startRequests>>
    /\ UNCHANGED stageVars
    /\ UNCHANGED <<reqs, writeFailures, pushed, overlapped>>
    /\ UNCHANGED <<exVars, scriptVars>>

DrainFail ==
    /\ mainPc = "drainWait"
    /\ Budget > 0
    /\ writeFailures' = writeFailures + 1
    /\ totalScraped' = TotalAfterFailedWrite(totalScraped, productBuffer)
    /\ productBuffer' = BufferAfterFailedWrite(productBuffer)
    /\ drainWr' = <<>>
    /\ mainPc' = "catch"
    /\ thrown' = "WriteError"
    /\ UNCHANGED <<db, table, targetBrands, cookieHeader, brandDict, startRequests>>
    /\ UNCHANGED <<landing, snapshot, logins, dirFetches, dirResponse>>
    /\ UNCHANGED <<reqs, dbWrites, pushed, overlapped, outVars>>
    /\ UNCHANGED <<exVars, scriptVars>>

\* ------------------------------------------------------------ run outcome
Catch ==
    /\ mainPc = "catch"
    /\ outcome' = "error"
    /\ reportedTotal' = reportedTotal
    /\ mainPc' = "finally"
    /\ UNCHANGED <<db, table, targetBrands, cookieHeader, brandDict, startRequests>>
    /\ UNCHANGED stageVars
    /\ UNCHANGED <<reqs, sinkVars>>
    /\ UNCHANGED <<exVars, scriptVars>>

\* Variant: a finally block that leaves the connection open.
EndConnectionSkipped(conn) == conn

\* if (db) await db.end();
EndConnection(conn) == IF conn = "open" THEN "closed" ELSE conn

Finally ==
    /\ mainPc = "finally"
    /\ db' = EndConnection(db)
    /\ mainPc' = "done"
    /\ UNCHANGED <<table, targetBrands, cookieHeader, brandDict, startRequests, stageVars>>
    /\ UNCHANGED <<reqs, sinkVars, outVars>>
    /\ UNCHANGED <<exVars, scriptVars>>

Next ==
    \/ Connect
    \/ QueryBrands
    \/ DropAndCreateTable
    \/ LoginSubmit
    \/ LoginCheck
    \/ LoginThrow
    \/ DirectoryFetch
    \/ DirectoryParse
    \/ Seed
    \/ \E u \in Urls : HandleNoProducts(u)
    \/ \E u \in Urls : HandleRows(u)
    \/ \E u \in Urls : FlushOk(u)
    \/ \E u \in Urls : FlushFail(u)
    \/ CrawlEnd
    \/ DrainOk
    \/ DrainFail
    \/ Catch
    \/ Finally

Spec == Init /\ [][Next]_vars

\* The same program against a site whose page fetches can fail, and a storage
\* that accepts every bulk write.
NextFetch ==
    \/ Connect
    \/ QueryBrands
    \/ DropAndCreateTable
    \/ LoginSubmit
    \/ LoginCheck
    \/ LoginThrow
    \/ DirectoryFetch
    \/ DirectoryParse
    \/ Seed
    \/ \E u \in Urls : HandleNoProducts(u)
    \/ \E u \in Urls : HandleRows(u)
    \/ \E u \in Urls : FlushOk(u)
    \/ \E u \in Urls : FetchFail(u)
    \/ CrawlEnd
    \/ DrainOk
    \/ Catch
    \/ Finally

SpecFetch == Init /\ [][NextFetch]_vars

\* The same program against a site with short pages, every fetch and every
\* bulk write succeeding.
NextPages ==
    \/ Connect
    \/ QueryBrands
    \/ DropAndCreateTable
    \/ LoginSubmit
    \/ LoginCheck
    \/ LoginThrow
    \/ DirectoryFetch
    \/ DirectoryParse
    \/ Seed
    \/ \E u \in Urls : HandleNoProducts(u)
    \/ \E u \in Urls : HandlePageRows(u)
    \/ \E u \in Urls : FlushOk(u)
    \/ CrawlEnd
    \/ DrainOk
    \/ Catch
    \/ Finally

SpecPages == Init /\ [][NextPages]_vars

\* The same program against a site with pages of 50 rows whose fetches can
\* fail, and a storage that accepts every bulk write.  The event loop runs
\* every continuation that is ready, the crawler starts a pending request
\* whenever a slot is free, and every awaited fetch or write settles: as long
\* as some step is possible, a step is taken.
NextLive ==
    \/ Connect
    \/ QueryBrands
    \/ DropAndCreateTable
    \/ LoginSubmit
    \/ LoginCheck
    \/ LoginThrow
    \/ DirectoryFetch
    \/ DirectoryParse
    \/ Seed
    \/ \E u \in Urls : HandleNoProducts(u)
    \/ \E u \in Urls : HandleHalfPage(u)
    \/ \E u \in Urls : FlushOk(u)
    \/ \E u \in Urls : FetchFail(u)
    \/ CrawlEnd
    \/ DrainOk
    \/ Catch
    \/ Finally

SpecLive == Init /\ [][NextLive]_vars /\ WF_vars(NextLive)

\* The start of a run, up to the seeding of the crawler.
NextStages ==
    \/ Connect
    \/ QueryBrands
    \/ DropAndCreateTable
    \/ LoginSubmit
    \/ LoginCheck
    \/ LoginThrow
    \/ DirectoryFetch
    \/ DirectoryParse
    \/ Seed
    \/ Catch
    \/ Finally

SpecStages == Init /\ [][NextStages]_vars

\* --------------------------------------------- paginated catalog sync loop
\* Token, connection, DROP TABLE and CREATE TABLE, any of which can throw.
SyncSetup ==
    /\ sync.pc = "setup"
    /\ \/ sync' = [sync EXCEPT !.pc = "loop", !.table = "recreated", !.db = "open"]
       \/ sync' = [sync EXCEPT !.pc = "catch"]
       \/ sync' = [sync EXCEPT !.pc = "catch", !.db = "open"]
    /\ UNCHANGED <<mainVars, reqs, sinkVars, outVars, exVars, job>>

\* while (currentPage <= totalPages): the awaited fetch of the current page
\* returns or throws; a page without items is not inserted.
SyncFetchPage ==
    /\ sync.pc = "loop"
    /\ sync.currentPage <= sync.totalPages
    /\ LET asked == [sync EXCEPT !.fetched = Append(@, sync.currentPage)]
       IN \/ \E resp \in PageResponses :
                LET got == [asked EXCEPT
                              !.totalPages = TotalPagesAfter(sync.currentPage, @, resp),
                              !.reported = IF sync.currentPage = 1
                                           THEN resp.total_pages ELSE @,
                              !.received = Append(@, resp.items)]
                IN  sync' = IF resp.items > 0
                            THEN [got EXCEPT !.pc = "insert", !.pending = resp.items]
                            ELSE [got EXCEPT !.currentPage = @ + 1]
          \/ sync' = [asked EXCEPT !.pc = "catch", !.failedAt = sync.currentPage]
    /\ UNCHANGED <<mainVars, reqs, sinkVars, outVars, exVars, job>>

\* await db.query(insertQuery, [rowValues]); totalFetched += ...; currentPage++
SyncInsert ==
    /\ sync.pc = "insert"
    /\ \/ sync' = [sync EXCEPT
                     !.rows = Append(@, [page |-> sync.currentPage, n |-> sync.pending]),
                     !.totalFetched = @ + sync.pending,
                     !.pending = 0,
                     !.currentPage = @ + 1,
                     !.pc = "loop"]
       \/ sync' = [sync EXCEPT !.pc = "catch", !.pending = 0,
                               !.failedAt = sync.currentPage]
    /\ UNCHANGED <<mainVars, reqs, sinkVars, outVars, exVars, job>>

\* The loop condition is false: the success message is printed.
SyncComplete ==
    /\ sync.pc = "loop"
    /\ sync.currentPage > sync.totalPages
    /\ sync' = [sync EXCEPT !.pc = "finally", !.out = "success"]
    /\ UNCHANGED <<mainVars, reqs, sinkVars, outVars, exVars, job>>

SyncCatch ==
    /\ sync.pc = "catch"
    /\ sync' = [sync EXCEPT !.pc = "finally", !.out = "error"]
    /\ UNCHANGED <<mainVars, reqs, sinkVars, outVars, exVars, job>>

SyncFinally ==
    /\ sync.pc = "finally"
    /\ sync' = [sync EXCEPT !.pc = "done", !.db = EndConnection(@)]
    /\ UNCHANGED <<mainVars, reqs, sinkVars, outVars, exVars, job>>

NextSync ==
    \/ SyncSetup
    \/ SyncFetchPage
    \/ SyncInsert
    \/ SyncComplete
    \/ SyncCatch
    \/ SyncFinally

SpecSync == Init /\ [][NextSync]_vars

\* --------------------------------------------------- Linnworks job steps
\* Step 1: AuthorizeByApplication; fetchLinnworks throws on a non-ok response.
JobAuth ==
    /\ job.pc = "auth"
    /\ \/ job' = [job EXCEPT !.sent = Append(@, Request("auth", 0, TRUE)), !.pc = "list"]
       \/ job' = [job EXCEPT !.sent = Append(@, Request("auth", 0, FALSE)), !.pc = "catch"]
    /\ UNCHANGED <<mainVars, reqs, sinkVars, outVars, exVars, sync>>

\* Step 2: the job list is fetched and searched; no match throws.
JobGetList ==
    /\ job.pc = "list"
    /\ \/ \E list \in JobLists :
             LET targetJob == find(list)
             IN  job' = [job EXCEPT
                           !.sent = Append(@, Request("list", 0, TRUE)),
                           !.targetJob = targetJob,
                           !.pc = IF targetJob = NoJob THEN "catch"
                                  ELSE IF NeedsEnable(targetJob) THEN "enable"
                                  ELSE "run"]
       \/ job' = [job EXCEPT !.sent = Append(@, Request("list", 0, FALSE)), !.pc = "catch"]
    /\ UNCHANGED <<mainVars, reqs, sinkVars, outVars, exVars, sync>>

\* Step 3: the disabled job is enabled.
JobEnable ==
    /\ job.pc = "enable"
    /\ \/ job' = [job EXCEPT !.sent = Append(@, Request("enable", job.targetJob.Id, TRUE)),
                             !.pc = "run"]
       \/ job' = [job EXCEPT !.sent = Append(@, Request("enable", job.targetJob.Id, FALSE)),
                             !.pc = "catch"]
    /\ UNCHANGED <<mainVars, reqs, sinkVars, outVars, exVars, sync>>

\* Step 4: the run-now request.
JobRunNow ==
    /\ job.pc = "run"
    /\ \/ job' = [job EXCEPT !.sent = Append(@, Request("run", job.targetJob.Id, TRUE)),
                             !.pc = "poll"]
       \/ job' = [job EXCEPT !.sent = Append(@, Request("run", job.targetJob.Id, FALSE)),
                             !.pc = "catch"]
    /\ UNCHANGED <<mainVars, reqs, sinkVars, outVars, exVars, sync>>

\* Step 5, one turn of while (!isFinished): sleep, poll the job, test its
\* state.  When the loop ends main returns and the process exits normally.
\* The service answers at most MaxPolls polls of a run.
JobPoll ==
    /\ job.pc = "poll"
    /\ ~job.isFinished
    /\ Len(job.polls) < MaxPolls
    /\ \/ \E st \in JobStates :
             job' = [job EXCEPT
                       !.sent = Append(@, Request("poll", job.targetJob.Id, TRUE)),
                       !.polls = Append(@, st),
                       !.isFinished = IsFinished(st),
                       !.pc = IF IsFinished(st) THEN "exited" ELSE "poll",
                       !.exit = IF IsFinished(st) THEN "success" ELSE @]
       \/ job' = [job EXCEPT !.sent = Append(@, Request("poll", job.targetJob.Id, FALSE)),
                             !.pc = "catch"]
    /\ UNCHANGED <<mainVars, reqs, sinkVars, outVars, exVars, sync>>

\* catch: the error is logged and process.exit(1) is called.
JobCatch ==
    /\ job.pc = "catch"
    /\ job' = [job EXCEPT !.pc = "exited", !.exit = "failure"]
    /\ UNCHANGED <<mainVars, reqs, sinkVars, outVars, exVars, sync>>

NextJob ==
    \/ JobAuth
    \/ JobGetList
    \/ JobEnable
    \/ JobRunNow
    \/ JobPoll
    \/ JobCatch

SpecJob == Init /\ [][NextJob]_vars

\* ------------------------------------------------------- extraction loop
\* One call of the .each callback of the request handler, on the next element
\* the row selector matched.  A page holds at most MaxRows product rows and
\* any number of spacer rows.
EachRow(el) ==
    /\ exWell + exBad < MaxRows
    /\ exRow' = el
    /\ IF el.secondRow
       THEN /\ exRecord' = NoRecord
            /\ UNCHANGED <<exCount, exWell, exBad>>
       ELSE /\ IF ShouldPush(el)
               THEN exRecord' = RecordOf(el) /\ exCount' = exCount + 1
               ELSE exRecord' = NoRecord /\ UNCHANGED exCount
            /\ IF WellFormed(el)
               THEN exWell' = exWell + 1 /\ UNCHANGED exBad
               ELSE exBad' = exBad + 1 /\ UNCHANGED exWell
    /\ UNCHANGED <<mainVars, reqs, sinkVars, outVars, scriptVars>>

\* The extraction loop of one handler call, on every page content.
NextExtract == \E el \in Elements : EachRow(el)

SpecExtract == Init /\ [][NextExtract]_vars

\* ------------------------------------------------------------ properties
ThresholdWrites == SelectSeq(dbWrites, LAMBDA w : w.by = "threshold")
DrainWrites == SelectSeq(dbWrites, LAMBDA w : w.by = "drain")
InDirectory(brand) == toLowerCase(brand) \in DOMAIN brandDict

\* C1: every brand of the configured list is seeded with the category URL of
\* the directory and not marked as fallback when its lower-cased name is a key
\* of the directory, and with the full-text search URL already marked as
\* fallback when it is not.
C1_SeededStartStates ==
    \A i \in 1..Len(startRequests) :
        LET brand == targetBrands[i]
            r == startRequests[i]
        IN IF InDirectory(brand)
           THEN /\ r.url = ListUrl(brandDict[toLowerCase(brand)])
                /\ r.userData = [brandName |-> brand, isSearchFallback |-> FALSE]
           ELSE /\ r.url = SearchUrl(brand)
                /\ r.userData = [brandName |-> brand, isSearchFallback |-> TRUE]

\* C2: every record that a completing threshold flush removes from the buffer
\* was part of the bulk write that this flush had issued (no record pushed
\* while the write was awaited is discarded).
C2_FlushRemovesOnlyWrittenRows ==
    [][\A u \in Urls :
          (reqs[u].st = "flushing" /\ reqs'[u].st = "handled")
              => Range(productBuffer) \subseteq Range(reqs[u].wr)]_vars

\* C3: once a bulk write has failed, during the crawl or in the final drain,
\* no further page is handled and the run does not end with the success message.
C3_FailedWriteHaltsRun ==
    [][writeFailures > 0
          => /\ outcome' # "success"
             /\ \A u \in Urls : reqs[u].st = "pending" => reqs'[u].st = "pending"]_vars

\* C4: a step in which a bulk write fails leaves the buffer as it was and does
\* not change the running total.
C4_FailedWriteKeepsBuffer ==
    [][writeFailures' # writeFailures
          => (productBuffer' = productBuffer /\ totalScraped' = totalScraped)]_vars

\* A bulk write has failed with records in the buffer.
C4_Witness == writeFailures > 0 /\ Len(productBuffer) > 0

\* C5: for every brand at most one request is ever enqueued by the no-products
\* branch, that request is a fallback request discovered on a non-fallback
\* page, and every request discovered on a fallback page is a fallback request.
C5_FallbackAtMostOnce ==
    \A u \in Urls :
        /\ reqs[u].from = "noProducts" =>
              /\ reqs[u].isSearchFallback /\ ~reqs[u].parentFb
              /\ \A v \in Urls \ {u} :
                    reqs[v].from = "noProducts" => reqs[v].brandName # reqs[u].brandName
        /\ (reqs[u].from # "start" /\ reqs[u].parentFb) => reqs[u].isSearchFallback

\* A fallback search was enqueued and handled, and its lineage was paginated.
C5_Witness ==
    \E u, v \in Urls :
        /\ reqs[u].from = "noProducts" /\ reqs[u].st = "handled"
        /\ reqs[v].from = "pagination" /\ reqs[v].parentFb /\ reqs[v].st = "handled"
        /\ reqs[v].brandName = reqs[u].brandName

\* The start request of the i-th brand was a search request and its first
\* response carried the no-products signal.
AbsentBrandEndedEmpty(i) ==
    LET u == SearchUrl(targetBrands[i])
    IN /\ ~InDirectory(targetBrands[i])
       /\ startRequests[i].url = u
       /\ reqs[u].st = "handled"
       /\ reqs[u].noProducts
       /\ reqs[u].retryCount = 0

\* C6: when a brand is absent from the directory and the first response to its
\* start (search) request carries the no-products signal, the queue never holds
\* another request of that brand and no record of that brand is pushed or written.
C6_AbsentBrandNoProducts ==
    \A i \in 1..Len(startRequests) :
        AbsentBrandEndedEmpty(i) =>
            LET b == targetBrands[i]
            IN /\ \A v \in Urls \ {SearchUrl(b)} :
                     reqs[v].st # "absent" => reqs[v].brandName # b
               /\ \A c \in pushed \cup Written \cup Range(productBuffer) : c.brandName # b

\* A run ended with an absent brand whose search found no products.
C6_Witness ==
    /\ mainPc = "done"
    /\ outcome = "success"
    /\ \E i \in 1..Len(startRequests) : AbsentBrandEndedEmpty(i)

\* A successful run that pushed 150 records, in which no handler pushed while
\* another awaited its bulk write and no bulk write failed.
SequentialRunOf150 ==
    /\ outcome = "success"
    /\ SetLen(pushed) = 150
    /\ writeFailures = 0
    /\ ~overlapped

\* C7 (as stated): a run that pushes 150 records, with handlers running one
\* after another and no failed write, has exactly one threshold flush, of
\* exactly 100 records (leaving 50 buffered), and one drain flush of 50 records.
C7_Exactly100Then50 ==
    SequentialRunOf150 =>
        /\ Len(ThresholdWrites) = 1
        /\ BufLen(ThresholdWrites[1].rows) = 100
        /\ Len(DrainWrites) = 1
        /\ BufLen(DrainWrites[1].rows) = 50

\* C7 (amended): in such a run there is exactly one threshold flush; it is
\* issued at the end of the first page that leaves at least 100 records
\* buffered and writes the whole buffer, k records with 100 <= k <= 150; the
\* drain then writes the remaining 150 - k records in one bulk write, and
\* issues no write when k = 150.
C7_OneThresholdFlushPerPageEnd ==
    SequentialRunOf150 =>
        /\ Len(ThresholdWrites) = 1
        /\ LET rows == ThresholdWrites[1].rows
               k == BufLen(rows)
           IN /\ k >= 100 /\ k <= 150
              /\ k - rows[Len(rows)].n < 100
              /\ IF k = 150 THEN Len(DrainWrites) = 0
                 ELSE Len(DrainWrites) = 1 /\ BufLen(DrainWrites[1].rows) = 150 - k

\* The single threshold flush wrote all 150 records and the drain wrote nothing.
C7_Witness ==
    /\ SequentialRunOf150
    /\ Len(ThresholdWrites) = 1
    /\ BufLen(ThresholdWrites[1].rows) = 150
    /\ Len(DrainWrites) = 0

\* C8: the count printed by the success message equals the number of records
\* the run's bulk writes have written.
C8_ReportedEqualsWritten ==
    outcome = "success" => reportedTotal = WrittenCount(dbWrites)

\* C9: when the run ends with the success message the buffer is empty and
\* every record pushed during the run has been written.
C9_SuccessMeansAllWritten ==
    outcome = "success" => (productBuffer = <<>> /\ pushed \subseteq Written)

\* C10: a handler that finds the no-products signal on a page whose request is
\* not marked as fallback adds exactly one request to the queue, the search
\* request of the same brand marked as fallback, and pushes no record.
C10_ListingNoProductsEnqueuesSearch ==
    [][\A u \in Urls :
          (reqs[u].st = "pending" /\ reqs'[u].st = "handled" /\ reqs'[u].noProducts
           /\ ~reqs[u].isSearchFallback)
              => /\ productBuffer' = productBuffer
                 /\ {v \in Urls : reqs[v].st = "absent" /\ reqs'[v].st # "absent"}
                        = {SearchUrl(reqs[u].brandName)}
                 /\ reqs'[SearchUrl(reqs[u].brandName)].brandName = reqs[u].brandName
                 /\ reqs'[SearchUrl(reqs[u].brandName)].isSearchFallback]_vars

\* C11: a search page that carries the no-products signal ends its task: no
\* request is in the queue because of it, no record of that attempt is pushed,
\* and the request ends handled (the handler did not throw, so it is neither
\* retried nor failed); when the request is marked as fallback the handler
\* hands no URL to enqueueLinks at all.
C11_FallbackNoProductsEnds ==
    \A u \in Urls :
        (reqs[u].noProducts /\ (reqs[u].isSearchFallback \/ u.kind = "search")) =>
            /\ reqs[u].st = "handled"
            /\ reqs[u].isSearchFallback => reqs[u].asked = {}
            /\ \A v \in Urls : u \notin reqs[v].parent
            /\ \A c \in pushed \cup Range(productBuffer) :
                   ~(c.url = u /\ c.try = reqs[u].retryCount)

\* A fallback search page, reached from a listing without products, carried
\* the no-products signal itself.
C11_Witness ==
    \E u \in Urls :
        /\ reqs[u].noProducts /\ reqs[u].isSearchFallback
        /\ reqs[u].from = "noProducts"
        /\ reqs[u].st = "handled"

\* C12: every request added by the pagination step was discovered on a page
\* without the no-products signal, is one of the next-page links of that page
\* and carries that page's brandName and isSearchFallback; a handled page on
\* which the selector matched no next-page link has added no request.
C12_PaginationKeepsLineage ==
    /\ \A v \in Urls :
          reqs[v].from = "pagination" =>
              \E u \in reqs[v].parent :
                 /\ v \in reqs[u].nextLinks
                 /\ reqs[u].st = "handled" /\ ~reqs[u].noProducts
                 /\ reqs[v].brandName = reqs[u].brandName
                 /\ reqs[v].isSearchFallback = reqs[u].isSearchFallback
    /\ \A u \in Urls :
          (reqs[u].st = "handled" /\ ~reqs[u].noProducts /\ reqs[u].nextLinks = {})
              => \A v \in Urls : u \notin reqs[v].parent

\* A page of a fallback search had a next-page link, and the page reached
\* through it had none and ended its lineage.
C12_Witness ==
    \E u, v \in Urls :
        /\ reqs[u].isSearchFallback /\ reqs[u].nextLinks = {v}
        /\ reqs[v].parent = {u} /\ reqs[v].from = "pagination"
        /\ reqs[v].st = "handled" /\ ~reqs[v].noProducts /\ reqs[v].nextLinks = {}

\* The requests of one brand that wait in the queue or are being handled.
Active(b) == {u \in Urls : reqs[u].brandName = b /\ reqs[u].st \in {"pending", "flushing"}}

SessionFailed == logins > 0 /\ thrown \in {"LoginFailed", "BrowserError"}

\* C14: once session acquisition has failed, the directory page is never
\* fetched, no request is ever in the crawler's queue, no bulk write is issued
\* or executed, and the run ends with the error message.
C14_FailedLoginStartsNothing ==
    SessionFailed =>
        /\ dirFetches = 0 /\ ~dirResponse.received
        /\ mainPc \in {"catch", "finally", "done"}
        /\ \A u \in Urls : reqs[u].st = "absent"
        /\ dbWrites = <<>> /\ drainWr = <<>> /\ writeFailures = 0
        /\ mainPc \in {"finally", "done"} => outcome = "error"

\* A run in which the login form stayed on the login page has ended.
C14_Witness == mainPc = "done" /\ thrown = "LoginFailed" /\ outcome = "error"

\* C15: when the directory page cannot be retrieved, by a rejected fetch or by
\* a response that is not a success, the run goes to its error exit: it does
\* not build a dictionary from that response and does not seed the crawl.
C15_DirectoryFailureAborts ==
    [][/\ (mainPc = "directory" /\ thrown' = "FetchError") => mainPc' = "catch"
       /\ (mainPc = "dirParse" /\ ~dirResponse.ok)
             => (mainPc' = "catch" /\ brandDict' = brandDict)]_vars

\* C16: a request is retried at most MaxRequestRetries times; a request that
\* failed for good has used all of them and no request was ever discovered on
\* it; a request fails for good only if its own fetch failed; and once the
\* crawl has ended every request is handled or failed and the run ends with
\* the success message, never with the error message.
C16_FetchFailureIsContained ==
    /\ \A u \in Urls :
          /\ reqs[u].retryCount <= MaxRequestRetries
          /\ reqs[u].st = "failed" =>
                /\ reqs[u].retryCount = MaxRequestRetries
                /\ reqs[u].fetchFailed
                /\ reqs[u].nextLinks = {}
                /\ \A v \in Urls : u \notin reqs[v].parent
    /\ (Down # {} /\ mainPc \in {"drainWait", "finally", "done"}) => QueueDrained
    /\ (Down # {} /\ mainPc = "done") => (outcome = "success" /\ thrown = "none")
    /\ Down # {} => mainPc # "catch"

\* The run ended with the success message although the start page of one
\* brand failed for good, and a page of another brand was handled after that
\* page had begun to fail.
C16_Witness ==
    /\ mainPc = "done" /\ outcome = "success"
    /\ \E u, v \in Urls :
          /\ reqs[u].st = "failed" /\ reqs[u].from = "start"
          /\ reqs[v].st = "handled" /\ reqs[v].brandName # reqs[u].brandName
          /\ \E c \in Written : c.url = v

\* C17: a flush called on an empty buffer (the final one, the only one that
\* can find it empty) issues no write and leaves buffer, total and storage as
\* they are; a flush called on a non-empty buffer issues one bulk write whose
\* rows are the whole buffer at the call, in push order, and when that write
\* has succeeded the storage holds exactly that one write more and the buffer
\* is empty.
C17_FlushWritesWholeBuffer ==
    [][/\ (mainPc = "crawl" /\ mainPc' # "crawl" /\ productBuffer = <<>>)
             => /\ mainPc' = "finally"
                /\ drainWr' = <<>> /\ dbWrites' = dbWrites
                /\ productBuffer' = productBuffer /\ totalScraped' = totalScraped
       /\ (mainPc = "crawl" /\ mainPc' # "crawl" /\ productBuffer # <<>>)
             => /\ mainPc' = "drainWait"
                /\ drainWr' = productBuffer /\ dbWrites' = dbWrites
       /\ (mainPc = "drainWait" /\ mainPc' = "finally")
             => /\ dbWrites' = Append(dbWrites, [rows |-> drainWr, by |-> "drain"])
                /\ productBuffer' = <<>>
       /\ \A u \in Urls :
             /\ (reqs[u].st = "pending" /\ reqs'[u].st = "flushing")
                   => (reqs'[u].wr = productBuffer' /\ dbWrites' = dbWrites)
             /\ (reqs[u].st = "flushing" /\ reqs'[u].st = "handled")
                   => /\ dbWrites' = Append(dbWrites,
                                            [rows |-> reqs[u].wr, by |-> "threshold"])
                      /\ productBuffer' = <<>>]_vars

\* A threshold flush has written a buffer of two pages and left the buffer
\* empty, and the final flush of the run found it empty and wrote nothing.
C17_Witness ==
    /\ mainPc = "done" /\ outcome = "success"
    /\ Len(dbWrites) = 1
    /\ dbWrites[1].by = "threshold" /\ Len(dbWrites[1].rows) = 2
    /\ productBuffer = <<>>
    /\ pushed = Range(dbWrites[1].rows)

\* C18: a bulk write is awaited by a handler only while the crawl runs and
\* carries at least FlushThreshold records, the buffer at its call; every
\* executed write of the crawl has at least that many; the drain's write is
\* awaited only after the crawl has ended, and at most one drain write is
\* executed, as the last write of the run.
C18_WritesAtThresholdOrDrain ==
    /\ \A u \in Urls :
          reqs[u].st = "flushing" =>
              (mainPc = "crawl" /\ BufLen(reqs[u].wr) >= FlushThreshold)
    /\ \A i \in 1..Len(dbWrites) :
          IF dbWrites[i].by = "threshold"
          THEN BufLen(dbWrites[i].rows) >= FlushThreshold
          ELSE i = Len(dbWrites) /\ mainPc \in {"finally", "done"}
    /\ drainWr # <<>> => (mainPc = "drainWait" /\ QueueDrained /\ DrainWrites = <<>>)

\* A run with two threshold writes during the crawl and the drain's write
\* of fewer than FlushThreshold records after it.
C18_Witness ==
    /\ mainPc = "done"
    /\ Len(ThresholdWrites) = 2
    /\ Len(DrainWrites) = 1
    /\ BufLen(DrainWrites[1].rows) < FlushThreshold

\* The records of brand b in a sequence of chunks.
RECURSIVE BrandLen(_, _)
BrandLen(buf, b) ==
    IF buf = <<>> THEN 0
    ELSE (IF Head(buf).brandName = b THEN Head(buf).n ELSE 0) + BrandLen(Tail(buf), b)

\* The records of brand b that the executed bulk writes have persisted.
RECURSIVE PersistedFor(_, _)
PersistedFor(ws, b) ==
    IF ws = <<>> THEN 0 ELSE BrandLen(Head(ws).rows, b) + PersistedFor(Tail(ws), b)

\* The executed bulk writes that carry a record of brand b.
WritesWith(b) == {i \in 1..Len(dbWrites) : BrandLen(dbWrites[i].rows, b) > 0}

\* A run has ended with the success message in which the i-th brand is in the
\* directory, its first listing page gave 2 records and a next-page link, and
\* the page behind that link gave 1 record and no next-page link.
TwoPageBrand(i) ==
    /\ mainPc = "done" /\ outcome = "success"
    /\ i \in 1..Len(targetBrands)
    /\ InDirectory(targetBrands[i])
    /\ LET first == ListUrl(brandDict[toLowerCase(targetBrands[i])])
       IN /\ reqs[first].brandName = targetBrands[i]
          /\ Chunk(first, reqs[first], 2) \in pushed
          /\ \E second \in reqs[first].nextLinks :
                /\ reqs[second].st = "handled"
                /\ Chunk(second, reqs[second], 1) \in pushed
                /\ reqs[second].nextLinks = {}

\* C19 (as stated, for runs in which no handler pushes while another awaits
\* its write): for such a brand exactly 3 records are persisted, and they are
\* written in exactly one bulk write.
C19_ThreeRecordsOneWrite ==
    \A i \in 1..MaxBrands :
        (TwoPageBrand(i) /\ ~overlapped) =>
            /\ PersistedFor(dbWrites, targetBrands[i]) = 3
            /\ Cardinality(WritesWith(targetBrands[i])) = 1

\* C19 (amended): when the whole run pushes fewer than FlushThreshold records,
\* exactly 3 records are persisted for such a brand, in exactly one bulk
\* write, which is the drain's write and the only write of the run.
C19_ThreeRecordsInTheDrain ==
    \A i \in 1..MaxBrands :
        (TwoPageBrand(i) /\ SetLen(pushed) < FlushThreshold) =>
            /\ PersistedFor(dbWrites, targetBrands[i]) = 3
            /\ WritesWith(targetBrands[i]) = {1}
            /\ Len(dbWrites) = 1 /\ dbWrites[1].by = "drain"

\* Such a run, in which a second brand pushed records between the two pages.
C19_Witness ==
    /\ TwoPageBrand(1)
    /\ SetLen(pushed) < FlushThreshold
    /\ Len(dbWrites) = 1
    /\ Len(dbWrites[1].rows) = 3
    /\ dbWrites[1].rows[2].brandName # targetBrands[1]

\* The page is the login page (with or without a query string).
IsLoginPage(url) == url.path = LoginPath

\* C20: when the page reached after the form was submitted is still the login
\* page, getSessionCookies takes the screenshot and then throws the login
\* error, returning no cookies; otherwise it returns the cookies, takes no
\* screenshot and throws nothing; and the login error is thrown in no other
\* situation.
C20_LoginFailsIffStillOnLoginPage ==
    [][/\ mainPc = "loginCheck" =>
             IF IsLoginPage(landing)
             THEN snapshot' /\ mainPc' = "loginThrow" /\ cookieHeader' = ""
                  /\ thrown' = "none"
             ELSE cookieHeader' = "session" /\ mainPc' = "directory" /\ ~snapshot'
                  /\ thrown' = "none"
       /\ mainPc = "loginThrow" => (thrown' = "LoginFailed" /\ cookieHeader' = "")
       /\ (thrown' = "LoginFailed" /\ thrown # "LoginFailed")
             => (mainPc = "loginThrow" /\ snapshot /\ IsLoginPage(landing))]_vars

\* The form came back as the login page with a query string; the screenshot
\* has been taken and the error is about to be thrown.
C20_Witness ==
    /\ mainPc = "loginThrow"
    /\ IsLoginPage(landing) /\ landing.query
    /\ snapshot

\* A request has been taken from the queue: its page was fetched or its fetch
\* was attempted.
Fetched == {u \in Urls : reqs[u].st \in {"flushing", "handled", "failed"}
                          \/ reqs[u].retryCount > 0}

\* C21 (as stated): every finished run has acquired the session exactly once
\* and built the directory exactly once.
C21_ExactlyOnceInEveryRun ==
    mainPc = "done" => (logins = 1 /\ dirFetches = 1)

\* C21 (amended): getSessionCookies and getBrandDictionary are each called at
\* most once in a run, the directory only after the session was returned; a
\* login that failed is not repeated; and when a catalog page is fetched,
\* both have been called exactly once and have returned.
C21_OnceInOrderBeforeCrawl ==
    /\ logins <= 1 /\ dirFetches <= 1
    /\ dirFetches > 0 => (logins = 1 /\ cookieHeader = "session")
    /\ SessionFailed => (logins = 1 /\ mainPc \in {"catch", "finally", "done"})
    /\ (mainPc = "crawl" \/ Fetched # {}) =>
          /\ logins = 1 /\ cookieHeader = "session"
          /\ dirFetches = 1 /\ ~dirResponse.received
          /\ thrown # "FetchError"

\* A catalog page has been handled after one login and one directory fetch.
C21_Witness ==
    /\ \E u \in Urls : reqs[u].st = "handled"
    /\ logins = 1 /\ dirFetches = 1

\* The directory page being parsed has no element with a link.
NoEntries(body) == \A i \in 1..Len(body) : body[i].href = NoHref

\* C22: a directory page without entries is parsed into the empty directory
\* and no error is raised: main goes on to the seeding, and the seeding of an
\* empty directory gives, for every configured brand in order, a request for
\* the full-text search of that brand, and starts the crawl.
C22_EmptyDirectorySeedsSearches ==
    [][/\ (mainPc = "dirParse" /\ dirResponse.ok /\ NoEntries(dirResponse.body))
             => (brandDict' = EmptyDict /\ mainPc' = "seed" /\ thrown' = "none")
       /\ (mainPc = "seed" /\ brandDict = EmptyDict)
             => /\ mainPc' = "crawl" /\ thrown' = "none"
                /\ Len(startRequests') = Len(targetBrands)
                /\ \A i \in 1..Len(targetBrands) :
                      /\ startRequests'[i].url = SearchUrl(targetBrands[i])
                      /\ startRequests'[i].userData.brandName = targetBrands[i]
                      /\ reqs'[SearchUrl(targetBrands[i])].st = "pending"]_vars

\* The crawl runs with an empty directory, and the searches of two different
\* brands are in the queue.
C22_Witness ==
    /\ mainPc = "crawl" /\ brandDict = EmptyDict
    /\ Len(startRequests) = 2
    /\ startRequests[1].url # startRequests[2].url
    /\ \A i \in 1..2 : reqs[startRequests[i].url].st # "absent"

\* C23: a finished run with a non-empty brand list has printed the success
\* message or the error message; once the success message is printed the
\* error message is not; and the success message is printed only when the
\* login returned the session, the directory fetch resolved and no bulk write
\* of the run was rejected.
C23_OneOutcomeSuccessOnlyIfAllSucceeded ==
    /\ (mainPc = "done" /\ Len(targetBrands) > 0) => outcome \in {"success", "error"}
    /\ outcome = "success" =>
          /\ mainPc \in {"finally", "done"}
          /\ cookieHeader = "session" /\ dirFetches = 1 /\ thrown = "none"
          /\ writeFailures = 0

\* C24: once the crawl has started, the run eventually leaves the crawl for
\* its final flush with every request of the queue handled or failed, none
\* pending or in flight; lineages are finite (MaxPage) and every fetch and
\* every write settles (fairness of SpecLive).
C24_CrawlReachesFinalFlush ==
    (mainPc = "crawl") ~> (mainPc \in {"drainWait", "finally", "done"} /\ QueueDrained)

\* A run has ended in which one request failed for good, a fallback search
\* was handled, and the drain wrote the rest of the buffer.
C24_Witness ==
    /\ mainPc = "done" /\ outcome = "success"
    /\ \E u \in Urls : reqs[u].st = "failed"
    /\ \E u \in Urls : reqs[u].st = "handled" /\ reqs[u].from = "noProducts"
    /\ Len(DrainWrites) = 1

\* C25: the extraction pushes exactly one record for every product row that
\* has a name and a code, both non-empty after trimming, and none for any
\* other row: a page with N such rows and M rows lacking one of the two
\* yields exactly N records.  A row whose price or quantity is missing is
\* pushed all the same.
NothingFor(el) ==
    /\ ~Truthy(el.dataPrice) /\ StripNonNumeric(el.priceText) = <<>>
    /\ StripNonNumeric(el.stockText) = <<>> /\ ~Truthy(el.max)

C25_OneRecordPerWellFormedRow ==
    /\ exCount = exWell
    /\ exRecord.pushed <=> (~exRow.secondRow /\ WellFormed(exRow))

C25_Witness ==
    /\ exWell = 1 /\ exBad = 1 /\ exCount = 1
    /\ exRecord.pushed /\ NothingFor(exRow)

\* C26: the quantity of a pushed record is the max attribute of the quantity
\* input whenever the row has one, even when the row also shows a stock
\* text; otherwise the number in the stock text; otherwise 0.
C26_QuantityPrefersInputMax ==
    exRecord.pushed =>
        exRecord.qty =
            IF Truthy(exRow.max) THEN parseFloat(exRow.max.text)
            ELSE IF StripNonNumeric(exRow.stockText) # <<>>
                 THEN parseFloat(StripNonNumeric(exRow.stockText))
                 ELSE Zero

\* C27: the status of a pushed record is IN_STOCK exactly when its quantity
\* is a number greater than 0, and OUT_OF_STOCK otherwise, a quantity of 0
\* and a row without any quantity included.
IsPositive(x) == ~x.nan /\ ~(x.whole = 0 /\ x.frac = <<>>)

C27_InStockIffPositive ==
    exRecord.pushed =>
        /\ exRecord.status \in {"IN_STOCK", "OUT_OF_STOCK"}
        /\ exRecord.status = "IN_STOCK" <=> IsPositive(exRecord.qty)

C27_Witness ==
    /\ exRecord.pushed
    /\ StripNonNumeric(exRow.stockText) = <<>> /\ ~Truthy(exRow.max)
    /\ exRecord.qty = Zero
    /\ exRecord.status = "OUT_OF_STOCK"

\* C28: the price of a pushed record is the data-price attribute whenever
\* the row has one, even when the visible price text says something else;
\* otherwise the visible price text stripped to digits and the decimal
\* point; and 0 when neither leaves anything.
C28_PricePrefersAttribute ==
    exRecord.pushed =>
        exRecord.price =
            IF Truthy(exRow.dataPrice) THEN parseFloat(exRow.dataPrice.text)
            ELSE IF StripNonNumeric(exRow.priceText) # <<>>
                 THEN parseFloat(StripNonNumeric(exRow.priceText))
                 ELSE Zero

C28_Witness ==
    /\ exRecord.pushed
    /\ exRow.dataPrice = Str(<<"6", ".", "0", "3">>)
    /\ exRow.priceText = <<"$", "9", ".", "5", "0">>
    /\ exRecord.price = [nan |-> FALSE, whole |-> 6, frac |-> <<"0", "3">>]

\* C29: when the brand query returns no brand the run goes no further: the
\* inventory table is not dropped, no session is acquired, no page is
\* fetched and no bulk write is issued.
BrandListEmpty ==
    mainPc \notin {"connect", "queryBrands"} /\ db # "none" /\ targetBrands = <<>>

C29_EmptyBrandListStopsRun ==
    BrandListEmpty =>
        /\ table = "previous"
        /\ logins = 0 /\ cookieHeader = ""
        /\ dirFetches = 0
        /\ \A u \in Urls : reqs[u].st = "absent"
        /\ dbWrites = <<>> /\ drainWr = <<>>

C29_Witness == BrandListEmpty /\ mainPc = "done" /\ thrown = "none"

\* C30: the directory built from the directory page has as keys the
\* lower-cased names of the elements that carry a link; the value of a key is
\* the link of the last element of the page, in page order, whose name is that
\* key up to case; an element without a link adds nothing.
Linked(body, k) ==
    {i \in 1..Len(body) : body[i].href # NoHref /\ toLowerCase(body[i].name) = k}

LastOf(S) == CHOOSE i \in S : \A j \in S : j <= i

C30_DirectoryKeepsLastPerLowerCasedName ==
    [][mainPc = "dirParse" =>
          LET body == dirResponse.body
          IN  /\ DOMAIN brandDict' = {k \in LowerNames : Linked(body, k) # {}}
              /\ \A k \in DOMAIN brandDict' :
                    brandDict'[k] = body[LastOf(Linked(body, k))].href]_vars

\* The directory was built from a page of two linked elements whose names
\* differ only in case and whose links differ: the second one's link is kept.
C30_Witness ==
    /\ mainPc = "seed"
    /\ Len(dirResponse.body) = 2
    /\ dirResponse.body[1].name # dirResponse.body[2].name
    /\ toLowerCase(dirResponse.body[1].name) = toLowerCase(dirResponse.body[2].name)
    /\ dirResponse.body[1].href \in Hrefs /\ dirResponse.body[2].href \in Hrefs
    /\ dirResponse.body[1].href # dirResponse.body[2].href
    /\ DOMAIN brandDict = {toLowerCase(dirResponse.body[2].name)}
    /\ brandDict[toLowerCase(dirResponse.body[2].name)] = dirResponse.body[2].href

\* C31: no record is part of more than one bulk write of the run, whatever
\* the interleaving of the page handlers: a bulk write a handler has issued
\* shares no record with a write already executed or with the write another
\* handler has issued.
C31_NoRecordInTwoBulkWrites ==
    \A u \in InFlight :
        /\ Range(reqs[u].wr) \cap Written = {}
        /\ \A v \in InFlight \ {u} : Range(reqs[u].wr) \cap Range(reqs[v].wr) = {}

\* C32: as long as no bulk write has failed, the buffer holds at most 99
\* records plus the records pushed by the handlers that are running (each
\* awaiting the bulk write it issued after pushing all the rows of its page).
RunningRows == SetLen({reqs[u].wr[Len(reqs[u].wr)] : u \in InFlight})

C32_BufferBoundedByRunningPages ==
    writeFailures = 0 =>
        BufLen(productBuffer) <= (FlushThreshold - 1) + RunningRows

\* The buffer holds more than 100 records while a handler awaits its write.
C32_Witness ==
    /\ writeFailures = 0
    /\ InFlight # {}
    /\ BufLen(productBuffer) > FlushThreshold

\* C33: the rows of a page are pushed into the buffer at most once in a run,
\* also when the request of the page is handled again after a failed write.
C33_PageRowsPushedOnce ==
    \A c, e \in pushed : c.url = e.url => c = e

\* C34: the table is dropped and recreated before the session is acquired:
\* from the first login step on, and so in every run that fails at the login
\* or at the directory fetch, the previous content of the table is gone.
EarlyFailure == thrown \in {"LoginFailed", "BrowserError", "FetchError"}

C34_TableRecreatedBeforeLogin ==
    /\ (mainPc = "login" \/ logins > 0) => table = "recreated"
    /\ EarlyFailure => (table = "recreated" /\ logins = 1)

\* A run has ended after a failed directory fetch.
C34_Witness ==
    /\ mainPc = "done" /\ thrown = "FetchError"
    /\ table = "recreated" /\ outcome = "error"

\* C35: every record pushed carries the brand of the task of its page: the
\* brand searched for on a search page, first or later, and the brand the
\* directory lists under the page's category on a listing page, first or later.
C35_RecordsCarryTaskBrand ==
    \A c \in pushed :
        /\ c.brandName = reqs[c.url].brandName
        /\ \E i \in 1..Len(targetBrands) : targetBrands[i] = c.brandName
        /\ c.url.kind = "search" => c.url.id = c.brandName
        /\ c.url.kind = "list" =>
              /\ toLowerCase(c.brandName) \in DOMAIN brandDict
              /\ brandDict[toLowerCase(c.brandName)] = c.url.id

\* Records of two brands are pushed, one from the second page of a listing and
\* one from a search page.
C35_Witness ==
    \E c, e \in pushed :
        /\ c.brandName # e.brandName
        /\ c.url.kind = "list" /\ c.url.page = 2
        /\ e.url.kind = "search"

\* C36: a run that opened the connection ends with the connection closed; it
\* is closed by main's last step only, hence once and after every bulk write:
\* with the connection closed no write is in flight and the run is over.
C36_ConnectionClosedOnceAtTheEnd ==
    /\ mainPc = "done" => (db = "closed" \/ (db = "none" /\ thrown = "ConnectionError"))
    /\ db = "closed" =>
          /\ mainPc = "done"
          /\ drainWr = <<>>
          /\ \A u \in Urls : reqs[u].st # "flushing"

\* A run has ended with the connection closed after its final drain failed.
C36_Witness ==
    /\ mainPc = "done" /\ db = "closed"
    /\ thrown = "WriteError" /\ outcome = "error"

\* C37: the sync loop asks for the pages in ascending order from page 1, one
\* at a time and each once, up to the page count P that the answer to page 1
\* reported and that no later answer changes; after a run that printed the
\* success message every page of 1..P was fetched and inserted; a failed
\* fetch or insert of page k ends the loop with the rows of the pages before
\* k left in the recreated table, and the success message is not printed.
RECURSIVE RowsOfPages(_, _)
RowsOfPages(received, k) ==
    IF k = 0 THEN <<>>
    ELSE IF received[k] > 0
         THEN Append(RowsOfPages(received, k - 1), [page |-> k, n |-> received[k]])
         ELSE RowsOfPages(received, k - 1)

LastPage == IF sync.reported > 1 THEN sync.reported ELSE 1

C37_PagesInOrderFailureKeepsEarlierRows ==
    /\ \A i \in 1..Len(sync.fetched) : sync.fetched[i] = i
    /\ Len(sync.fetched) - 1 <= Len(sync.received)
    /\ sync.pc = "insert" => Len(sync.fetched) = sync.currentPage
    /\ Len(sync.received) >= 1 =>
          /\ sync.totalPages = sync.reported
          /\ Len(sync.fetched) <= LastPage
    /\ sync.out = "success" =>
          /\ sync.failedAt = 0
          /\ Len(sync.fetched) = LastPage
          /\ sync.rows = RowsOfPages(sync.received, LastPage)
    /\ sync.failedAt > 0 =>
          /\ sync.pc \in {"catch", "finally", "done"}
          /\ sync.out # "success"
          /\ sync.table = "recreated"
          /\ Len(sync.fetched) = sync.failedAt
          /\ sync.rows = RowsOfPages(sync.received, sync.failedAt - 1)

\* The insert of page 2 of 3 failed: the rows of page 1 are in the table, page
\* 3 was never asked for and the run ended with the error message.
C37_Witness ==
    /\ sync.pc = "done" /\ sync.out = "error"
    /\ sync.reported = 3 /\ sync.failedAt = 2
    /\ sync.received = <<2, 1>>
    /\ sync.rows = <<[page |-> 1, n |-> 2]>>

\* C38: a run-now request is sent only after the authentication and the list
\* request succeeded and the list had a job of the given name, it carries
\* that job's id, and when that job was disabled the enable request for it
\* has succeeded before; when the list has no job of that name neither an
\* enable nor a run-now request is sent and the script exits with failure.
Before(i, name, id) == \E k \in 1..(i - 1) : job.sent[k] = Request(name, id, TRUE)
Named(j) == j.Name = JobName \/ j.FriendlyName = JobName
NoneFound == (\E k \in 1..Len(job.sent) : job.sent[k] = Request("list", 0, TRUE))
             /\ job.targetJob = NoJob

C38_RunNowOnlyForFoundEnabledJob ==
    /\ \A i \in 1..Len(job.sent) :
          job.sent[i].req = "run" =>
              /\ Before(i, "auth", 0) /\ Before(i, "list", 0)
              /\ Named(job.targetJob) /\ job.sent[i].id = job.targetJob.Id
              /\ ~job.targetJob.Enabled => Before(i, "enable", job.targetJob.Id)
    /\ NoneFound =>
          /\ \A i \in 1..Len(job.sent) : job.sent[i].req \notin {"enable", "run"}
          /\ job.pc \in {"catch", "exited"}
          /\ job.pc = "exited" => job.exit = "failure"

\* A disabled job was found, enabled and then triggered.
C38_Witness ==
    /\ Len(job.sent) = 4
    /\ ~job.targetJob.Enabled
    /\ job.sent[3] = Request("enable", job.targetJob.Id, TRUE)
    /\ job.sent[4] = Request("run", job.targetJob.Id, TRUE)

\* C39: the polling loop ends at the first poll that reports the job neither
\* queued nor executing, and at no other poll: while every poll so far has
\* reported it queued or executing the loop is still running; a failed poll
\* request ends the script with failure status.
Idle(st) == st = [IsQueued |-> FALSE, Executing |-> FALSE]
PollFailed ==
    Len(job.sent) > 0 /\ job.sent[Len(job.sent)] = Request("poll", job.targetJob.Id, FALSE)

C39_PollingEndsAtFirstIdlePoll ==
    /\ \A i \in 1..(Len(job.polls) - 1) : ~Idle(job.polls[i])
    /\ job.isFinished <=> (job.polls # <<>> /\ Idle(job.polls[Len(job.polls)]))
    /\ job.exit = "success" <=> job.isFinished
    /\ (job.polls # <<>> /\ ~job.isFinished /\ ~PollFailed) => job.pc = "poll"
    /\ PollFailed =>
          /\ ~job.isFinished
          /\ job.pc \in {"catch", "exited"}
          /\ job.pc = "exited" => job.exit = "failure"

\* The loop ended at the second poll, after a poll that reported the job queued.
C39_Witness ==
    /\ Len(job.polls) = 2
    /\ job.polls[1] = [IsQueued |-> TRUE, Executing |-> FALSE]
    /\ Idle(job.polls[2])
    /\ job.pc = "exited" /\ job.exit = "success"

====
